---- MODULE Spec2Model ----
(***************************************************************************)
(* Model of src/index.js: the convertTypes normalizer and the              *)
(* restoreBackup / main orchestration of the backup restore tool.          *)
(*                                                                         *)
(* JSON values are tagged records [t, v]:                                  *)
(*   string / number / null : v is the literal text                        *)
(*   array                  : v is the sequence of element values          *)
(*   object                 : v is the sequence of fields [k, val] in the  *)
(*                            object's own-key (for..in) order             *)
(*   ObjectId / Date        : the typed values the normalizer builds       *)
(***************************************************************************)
EXTENDS Naturals, Sequences, FiniteSets

VARIABLES
    pc,          \* position of main / restoreBackup
    fileExists,  \* fs.existsSync(backupFilePath)
    backup0,     \* the backup document set as parsed from the file
    backupData,  \* the same object graph as the program holds it now
    idx,         \* position of the for..in loop over backupData
    pending,     \* batch handed to the insertMany being awaited
    calls,       \* backend calls issued so far, in order
    log,         \* console lines emitted so far, in order
    failed,      \* collections (by position) whose processing threw
    cpc,         \* position of a stand-alone convertTypes call
    cin0,        \* argument of that call, as it was before the call
    cin,         \* the same argument object graph after the call
    cout,        \* value returned by the call
    cok          \* FALSE when the call threw

vars == <<pc, fileExists, backup0, backupData, idx, pending, calls, log, failed,
          cpc, cin0, cin, cout, cok>>

restoreVars == <<pc, fileExists, backup0, backupData, idx, pending, calls, log, failed>>
convVars == <<cpc, cin0, cin, cout, cok>>

\* ---------------------------------------------------------------- bounds
MaxLen == 2          \* longest array inside a generated document
MaxFields == 2       \* most fields of a generated top-level document
MaxDocs == 2         \* most documents of a collection
MaxCollections == 2  \* most collections of a backup

\* ---------------------------------------------------------------- values
Str(s) == [t |-> "string", v |-> s]
Num(s) == [t |-> "number", v |-> s]
Null == [t |-> "null", v |-> "null"]
Arr(elems) == [t |-> "array", v |-> elems]
Obj(fields) == [t |-> "object", v |-> fields]
Field(key, value) == [k |-> key, val |-> value]

HexId == "507f1f77bcf86cd799439011"
IsoDate == "2023-01-01T00:00:00Z"
Plain == "Alice"

\* !isNaN(Date.parse(s))
DateParses(s) == s \in {IsoDate}

\* ObjectId.isValid(s) for a string s
ObjectIdIsValid(s) == s \in {HexId}

\* new ObjectId(s) for a string s: throws unless 12 bytes / 24 hex characters
ObjectIdCtorOk(s) == ObjectIdIsValid(s)
NewObjectId(s) == [t |-> "ObjectId", v |-> s]

\* new Date(s): an Invalid Date object when s does not parse
NewDate(s) == [t |-> "Date", v |-> IF DateParses(s) THEN s ELSE "Invalid Date"]

IsString(value) == value.t = "string"
IsArray(value) == value.t = "array"
\* typeof data === 'object' && data !== null (arrays are handled before)
IsObject(value) == value.t = "object"

HasKey(obj, key) == IsObject(obj) /\ \E i \in DOMAIN obj.v : obj.v[i].k = key
KeyIndex(obj, key) == CHOOSE i \in DOMAIN obj.v : obj.v[i].k = key
Get(obj, key) == obj.v[KeyIndex(obj, key)].val
\* obj[key] = value on an object that already has the key
Set(obj, key, value) == Obj([obj.v EXCEPT ![KeyIndex(obj, key)].val = value])

\* x.prop && typeof x.prop === 'string': an own string property that is truthy
TruthyString(x, key) == HasKey(x, key) /\ IsString(Get(x, key)) /\ Get(x, key).v # ""

\* results of a step that may throw and may write into its argument:
\*   ok = FALSE when it threw, out = the value returned, inp = the argument afterwards
Ret(value, arg) == [ok |-> TRUE, out |-> value, inp |-> arg]
Throw(arg) == [ok |-> FALSE, out |-> Null, inp |-> arg]

\* ------------------------------------------------------------ convertTypes
\* the branch of the if/else chain taken for one own key
NoNameKey(key) == FALSE
IsNameKey(key) == key = "name"

IsDateBranch(key, value) == IsString(value) /\ DateParses(value.v) /\ key # "name"

IsIdBranch(key, value) == key = "_id" /\ IsString(value)

Branch(key, value) ==
    IF IsNameKey(key) THEN "name"
    ELSE IF IsDateBranch(key, value) THEN "date"
    ELSE IF IsIdBranch(key, value) THEN "_id"
    ELSE IF key = "payments" THEN "payments"
    ELSE IF key = "purchasedProducts" THEN "purchasedProducts"
    ELSE IF IsArray(value) THEN "array"
    ELSE "recurse"

\* payment._id = new ObjectId(payment._id) etc.: one guarded in-place conversion
ConvertIdInPlace(x, key) ==
    IF TruthyString(x, key)
    THEN IF ObjectIdCtorOk(Get(x, key).v)
         THEN Ret(Set(x, key, NewObjectId(Get(x, key).v)), Set(x, key, NewObjectId(Get(x, key).v)))
         ELSE Throw(x)
    ELSE Ret(x, x)

ConvertDateInPlace(x, key) ==
    IF TruthyString(x, key)
    THEN Ret(Set(x, key, NewDate(Get(x, key).v)), Set(x, key, NewDate(Get(x, key).v)))
    ELSE Ret(x, x)

\* the callback of value.map for key 'payments'
PaymentNoDate(payment) ==
    IF payment.t = "null" THEN Throw(payment) ELSE ConvertIdInPlace(payment, "_id")
PaymentCallback(payment) ==
    IF payment.t = "null"
    THEN Throw(payment)               \* reading a property of null
    ELSE LET a == ConvertIdInPlace(payment, "_id")
         IN  IF ~a.ok THEN a ELSE ConvertDateInPlace(a.out, "date")

\* the callback of value.map for key 'purchasedProducts'
PurchasedProductCallback(purchasedProduct) ==
    IF purchasedProduct.t = "null"
    THEN Throw(purchasedProduct)
    ELSE LET a == ConvertIdInPlace(purchasedProduct, "_id")
         IN  IF ~a.ok THEN a ELSE ConvertIdInPlace(a.out, "productId")

\* the callback of value.map in the generic array branch
ItemKeep(item) == item
ItemCallback(item) ==
    IF IsString(item) /\ ObjectIdIsValid(item.v) THEN NewObjectId(item.v) ELSE item

\* one step of a map whose callback returned r for element i
MapStep(acc, i, r) ==
    [ok |-> r.ok,
     out |-> IF r.ok THEN Append(acc.out, r.out) ELSE acc.out,
     inp |-> [acc.inp EXCEPT ![i] = r.inp]]

RECURSIVE MapPayments(_, _, _)
MapPayments(elems, i, acc) ==
    IF i > Len(elems) \/ ~acc.ok THEN acc
    ELSE MapPayments(elems, i + 1, MapStep(acc, i, PaymentCallback(elems[i])))

RECURSIVE MapPurchasedProducts(_, _, _)
MapPurchasedProducts(elems, i, acc) ==
    IF i > Len(elems) \/ ~acc.ok THEN acc
    ELSE MapPurchasedProducts(elems, i + 1,
                              MapStep(acc, i, PurchasedProductCallback(elems[i])))

\* value.map(callback) for the two special keys; value.map throws on a non-array
SpecialArray(key, value) ==
    IF ~IsArray(value) THEN Throw(value)
    ELSE LET r == IF key = "payments"
                  THEN MapPayments(value.v, 1, Ret(<<>>, value.v))
                  ELSE MapPurchasedProducts(value.v, 1, Ret(<<>>, value.v))
         IN  [ok |-> r.ok, out |-> Arr(r.out), inp |-> Arr(r.inp)]

RECURSIVE convertTypes(_)
RECURSIVE MapConvertTypes(_, _, _)
RECURSIVE ConvertFields(_, _, _)

\* the value stored under one own key, by the branch taken
ConvertField(key, value) ==
    LET b == Branch(key, value) IN
    CASE b = "name" -> Ret(value, value)
      [] b = "date" -> Ret(NewDate(value.v), value)
      [] b = "_id" -> IF ObjectIdCtorOk(value.v)
                      THEN Ret(NewObjectId(value.v), value)
                      ELSE Throw(value)
      [] b \in {"payments", "purchasedProducts"} -> SpecialArray(key, value)
      [] b = "array" -> Ret(Arr([i \in DOMAIN value.v |-> ItemCallback(value.v[i])]), value)
      [] OTHER -> convertTypes(value)

\* the for..in loop building convertedData
ConvertFields(fields, i, acc) ==
    IF i > Len(fields) \/ ~acc.ok THEN acc
    ELSE LET r == ConvertField(fields[i].k, fields[i].val) IN
         ConvertFields(fields, i + 1,
            [ok |-> r.ok,
             out |-> IF r.ok THEN Append(acc.out, Field(fields[i].k, r.out)) ELSE acc.out,
             inp |-> [acc.inp EXCEPT ![i].val = r.inp]])

\* data.map(convertTypes)
MapConvertTypes(elems, i, acc) ==
    IF i > Len(elems) \/ ~acc.ok THEN acc
    ELSE MapConvertTypes(elems, i + 1, MapStep(acc, i, convertTypes(elems[i])))

convertTypes(data) ==
    IF IsArray(data)
    THEN LET r == MapConvertTypes(data.v, 1, Ret(<<>>, data.v))
         IN  [ok |-> r.ok, out |-> Arr(r.out), inp |-> Arr(r.inp)]
    ELSE IF IsObject(data)
    THEN LET r == ConvertFields(data.v, 1, Ret(<<>>, data.v))
         IN  [ok |-> r.ok, out |-> Obj(r.out), inp |-> Obj(r.inp)]
    ELSE Ret(data, data)

\* ------------------------------------------------- inputs of convertTypes
SeqsUpTo(S, n) == UNION {[1..k -> S] : k \in 0..n}

Scalars == {Str(HexId), Str(IsoDate), Str(Plain), Str(""), Num("42"), Null}
Items == {Str(HexId), Str(IsoDate), Str(Plain), Num("42")}
ScalarArrays == {Arr(s) : s \in SeqsUpTo(Items, MaxLen)}

PaymentElems ==
    {Obj(<<Field("_id", Str(HexId)), Field("date", Str(IsoDate)), Field("note", Str(IsoDate))>>),
     Obj(<<Field("_id", Str("")), Field("date", Str("")), Field("amount", Num("42"))>>),
     Obj(<<Field("amount", Num("42")), Field("ref", Str(HexId))>>),
     Obj(<<Field("_id", Str(Plain))>>),
     Obj(<<Field("date", Str(Plain)), Field("_id", Num("42"))>>)}
PaymentArrays == {Arr(s) : s \in SeqsUpTo(PaymentElems, MaxLen)}

PurchasedElems ==
    {Obj(<<Field("_id", Str(HexId)), Field("productId", Str(HexId)), Field("qty", Num("42"))>>),
     Obj(<<Field("productId", Str(Plain))>>),
     Obj(<<Field("productId", Str("")), Field("since", Str(IsoDate))>>)}
PurchasedArrays == {Arr(s) : s \in SeqsUpTo(PurchasedElems, MaxLen)}

NestedDocs ==
    {Obj(<<Field("name", Str(IsoDate)), Field("_id", Str(HexId)), Field("since", Str(IsoDate))>>),
     Obj(<<Field("name", Str(HexId)), Field("_id", Str(IsoDate))>>),
     Obj(<<Field("_id", Str(Plain))>>),
     Obj(<<Field("payments", Arr(<<Obj(<<Field("_id", Str(HexId))>>)>>))>>),
     Obj(<<Field("tags", Arr(<<Str(HexId), Str(Plain)>>))>>)}

FieldPool ==
    {Field("name", x) : x \in {Str(IsoDate), Str(HexId), Str(Plain), Arr(<<Str(HexId)>>),
                               Obj(<<Field("_id", Str(HexId))>>)}}
    \cup {Field("_id", x) : x \in {Str(HexId), Str(IsoDate), Str(Plain), Str(""), Num("42"),
                                   Obj(<<Field("oid", Str(HexId))>>)}}
    \cup {Field("createdAt", x) : x \in Scalars}
    \cup {Field("tags", x) : x \in ScalarArrays}
    \cup {Field("payments", x) : x \in PaymentArrays \cup {Str(Plain)}}
    \cup {Field("purchasedProducts", x) : x \in PurchasedArrays}
    \cup {Field("profile", x) : x \in NestedDocs}

Companions ==
    {Field("name", Str(IsoDate)), Field("_id", Str(HexId)), Field("_id", Str(Plain)),
     Field("createdAt", Str(IsoDate))}

DistinctKeys(fields) ==
    \A i, j \in DOMAIN fields : i # j => fields[i].k # fields[j].k

InsertAt(s, p, f) == SubSeq(s, 1, p - 1) \o <<f>> \o SubSeq(s, p, Len(s))

\* documents of at most MaxFields fields: one field of the pool among companions
Docs ==
    {d \in UNION {UNION {{Obj(InsertAt(s, p, f)) : p \in 1..(Len(s) + 1)} :
                         s \in SeqsUpTo(Companions, MaxFields - 1)} : f \in FieldPool} :
        DistinctKeys(d.v)}

Inputs == Docs \cup ScalarArrays \cup Scalars \cup {Arr(<<d>>) : d \in NestedDocs}

\* ------------------------------------------- a stand-alone convertTypes call
RestoreIdle ==
    /\ pc = "idle" /\ fileExists = TRUE /\ backup0 = <<>> /\ backupData = <<>>
    /\ idx = 0 /\ pending = <<>> /\ calls = <<>> /\ log = <<>> /\ failed = {}

InitConv ==
    /\ RestoreIdle
    /\ cpc = "ready"
    /\ cin0 \in Inputs
    /\ cin = cin0
    /\ cout = Null
    /\ cok = TRUE

Normalize ==
    /\ cpc = "ready"
    /\ LET r == convertTypes(cin0) IN
        /\ cin' = r.inp
        /\ cout' = r.out
        /\ cok' = r.ok
    /\ cpc' = "done"
    /\ UNCHANGED <<cin0, restoreVars>>

NextConv == Normalize

SpecConv == InitConv /\ [][NextConv]_vars

\* ------------------------------------------------------------ the backup file
CollectionNames == <<"users", "purchases", "products", "logs", "audit">>

GoodDoc ==
    Obj(<<Field("_id", Str(HexId)), Field("name", Str(Plain)),
          Field("createdAt", Str(IsoDate)),
          Field("payments", Arr(<<Obj(<<Field("_id", Str(HexId)), Field("date", Str(IsoDate))>>)>>))>>)
BadDoc == Obj(<<Field("_id", Str(Plain))>>)
BackupDocs == {GoodDoc, BadDoc}

\* parsed backup files: collection i is named CollectionNames[i]
Backups ==
    {[i \in DOMAIN b |-> [name |-> CollectionNames[i], docs |-> b[i]]] :
        b \in SeqsUpTo(SeqsUpTo(BackupDocs, MaxDocs), MaxCollections)}

Line(kind, coll) == [kind |-> kind, coll |-> coll]
Call(op, name, docs) == [op |-> op, name |-> name, docs |-> docs]

ConvIdle == cpc = "idle" /\ cin0 = Null /\ cin = Null /\ cout = Null /\ cok = TRUE

Init ==
    /\ pc = "main"
    /\ fileExists \in BOOLEAN
    /\ backup0 = <<>>
    /\ backupData = <<>>
    /\ idx = 0
    /\ pending = <<>>
    /\ calls = <<>>
    /\ log = <<>>
    /\ failed = {}
    /\ ConvIdle

\* ------------------------------------------------------------------- main
\* main: the backup file does not exist
MainStartAnyway ==
    /\ pc = "main" /\ ~fileExists
    /\ pc' = "connect"
    /\ UNCHANGED <<fileExists, backup0, backupData, idx, pending, calls, log, failed, convVars>>
MainFileMissing ==
    /\ pc = "main" /\ ~fileExists
    /\ log' = Append(log, Line("notfound", ""))
    /\ pc' = "exit"
    /\ UNCHANGED <<fileExists, backup0, backupData, idx, pending, calls, failed, convVars>>

\* main: the file exists, restoreBackup is called and builds its client
MainStart ==
    /\ pc = "main" /\ fileExists
    /\ pc' = "connect"
    /\ UNCHANGED <<fileExists, backup0, backupData, idx, pending, calls, log, failed, convVars>>

\* main's catch, reached when restoreBackup rejects
MainCatch ==
    /\ pc = "rejected"
    /\ log' = Append(log, Line("mainerror", ""))
    /\ pc' = "exit"
    /\ UNCHANGED <<fileExists, backup0, backupData, idx, pending, calls, failed, convVars>>

\* ---------------------------------------------------------- restoreBackup
\* await client.connect(), then client.db(dbName)
Connect ==
    /\ pc = "connect"
    /\ \E ok \in BOOLEAN :
        IF ok
        THEN /\ calls' = calls \o <<Call("connect", "", <<>>), Call("db", "", <<>>)>>
             /\ log' = log \o <<Line("connecting", ""), Line("connected", "")>>
             /\ pc' = "read"
        ELSE /\ calls' = Append(calls, Call("connect", "", <<>>))
             /\ log' = Append(log, Line("connecting", ""))
             /\ pc' = "catch"
    /\ UNCHANGED <<fileExists, backup0, backupData, idx, pending, failed, convVars>>

\* require(backupFilePath): the parsed backup, or a throw
ReadBackup ==
    /\ pc = "read"
    /\ log' = Append(log, Line("reading", ""))
    /\ \/ /\ pc' = "catch"
          /\ UNCHANGED <<backup0, backupData, idx>>
       \/ \E b \in Backups :
          /\ backup0' = b
          /\ backupData' = b
          /\ idx' = 1
          /\ pc' = "loop"
    /\ UNCHANGED <<fileExists, pending, calls, failed, convVars>>

\* loop body for a collection with no documents
LoopSkip ==
    /\ pc = "loop" /\ idx <= Len(backupData)
    /\ Len(backupData[idx].docs) = 0
    /\ log' = Append(log, Line("skip", backupData[idx].name))
    /\ idx' = idx + 1
    /\ UNCHANGED <<pc, fileExists, backup0, backupData, pending, calls, failed, convVars>>

\* loop body for a non-empty collection, up to the awaited insertMany
LoopRestoreFirstOnly ==
    /\ pc = "loop" /\ idx <= Len(backupData)
    /\ Len(backupData[idx].docs) # 0
    /\ log' = Append(log, Line("restoring", backupData[idx].name))
    /\ LET docs == backupData[idx].docs
           r == MapConvertTypes(<<docs[1]>>, 1, Ret(<<>>, <<docs[1]>>))
       IN  /\ backupData' = [backupData EXCEPT ![idx].docs[1] = r.inp[1]]
           /\ IF r.ok
              THEN /\ calls' = calls \o <<Call("collection", backupData[idx].name, <<>>),
                                          Call("insertMany", backupData[idx].name, r.out)>>
                   /\ pending' = r.out
                   /\ pc' = "insert"
                   /\ UNCHANGED failed
              ELSE /\ calls' = Append(calls, Call("collection", backupData[idx].name, <<>>))
                   /\ failed' = failed \cup {idx}
                   /\ pc' = "catch"
                   /\ UNCHANGED pending
    /\ UNCHANGED <<fileExists, backup0, idx, convVars>>
LoopRestore ==
    /\ pc = "loop" /\ idx <= Len(backupData)
    /\ Len(backupData[idx].docs) # 0
    /\ log' = Append(log, Line("restoring", backupData[idx].name))
    /\ LET docs == backupData[idx].docs
           r == MapConvertTypes(docs, 1, Ret(<<>>, docs))
       IN  /\ backupData' = [backupData EXCEPT ![idx].docs = r.inp]
           /\ IF r.ok
              THEN /\ calls' = calls \o <<Call("collection", backupData[idx].name, <<>>),
                                          Call("insertMany", backupData[idx].name, r.out)>>
                   /\ pending' = r.out
                   /\ pc' = "insert"
                   /\ UNCHANGED failed
              ELSE /\ calls' = Append(calls, Call("collection", backupData[idx].name, <<>>))
                   /\ failed' = failed \cup {idx}
                   /\ pc' = "catch"
                   /\ UNCHANGED pending
    /\ UNCHANGED <<fileExists, backup0, idx, convVars>>

\* the awaited insertMany resolves
InsertResolve ==
    /\ pc = "insert"
    /\ log' = Append(log, Line("restored", backupData[idx].name))
    /\ pending' = <<>>
    /\ idx' = idx + 1
    /\ pc' = "loop"
    /\ UNCHANGED <<fileExists, backup0, backupData, calls, failed, convVars>>

\* the awaited insertMany rejects: control leaves the try block
InsertRejectContinue ==
    /\ pc = "insert"
    /\ failed' = failed \cup {idx}
    /\ log' = Append(log, Line("error", backupData[idx].name))
    /\ pending' = <<>>
    /\ idx' = idx + 1
    /\ pc' = "loop"
    /\ UNCHANGED <<fileExists, backup0, backupData, calls, convVars>>
InsertReject ==
    /\ pc = "insert"
    /\ failed' = failed \cup {idx}
    /\ pending' = <<>>
    /\ pc' = "catch"
    /\ UNCHANGED <<fileExists, backup0, backupData, idx, calls, log, convVars>>

\* the loop is exhausted: the last statement of the try block
LoopDone ==
    /\ pc = "loop" /\ idx > Len(backupData)
    /\ log' = Append(log, Line("completed", ""))
    /\ pc' = "finally"
    /\ UNCHANGED <<fileExists, backup0, backupData, idx, pending, calls, failed, convVars>>

\* the catch block
CatchNoFinally ==
    /\ pc = "catch"
    /\ log' = Append(log, Line("error", ""))
    /\ pc' = "done"
    /\ UNCHANGED <<fileExists, backup0, backupData, idx, pending, calls, failed, convVars>>
Catch ==
    /\ pc = "catch"
    /\ log' = Append(log, Line("error", ""))
    /\ pc' = "finally"
    /\ UNCHANGED <<fileExists, backup0, backupData, idx, pending, calls, failed, convVars>>

\* the finally block: await client.close(), which resolves or rejects
Finally ==
    /\ pc = "finally"
    /\ calls' = Append(calls, Call("close", "", <<>>))
    /\ \/ /\ log' = Append(log, Line("closed", ""))
          /\ pc' = "done"
       \/ /\ pc' = "rejected"
          /\ UNCHANGED log
    /\ UNCHANGED <<fileExists, backup0, backupData, idx, pending, failed, convVars>>

Next ==
    \/ MainFileMissing
    \/ MainStart
    \/ MainCatch
    \/ Connect
    \/ ReadBackup
    \/ LoopSkip
    \/ LoopRestore
    \/ InsertResolve
    \/ InsertReject
    \/ LoopDone
    \/ Catch
    \/ Finally

Spec == Init /\ [][Next]_vars

\* ------------------------------------------------------------ observations
CallsOf(op) == {i \in DOMAIN calls : calls[i].op = op}
LogOf(kind) == {i \in DOMAIN log : log[i].kind = kind}
InsertsFor(name) == {i \in CallsOf("insertMany") : calls[i].name = name}
Logged(kind, name) == \E i \in DOMAIN log : log[i] = Line(kind, name)
NonEmpty(i) == Len(backup0[i].docs) # 0
\* restoreBackup was called and has settled
Settled == pc \in {"done", "rejected"} \/ (pc = "exit" /\ fileExists)
\* every document of collection i converts without a throw
Converts(i) == \A k \in DOMAIN backup0[i].docs : convertTypes(backup0[i].docs[k]).ok
\* the normalized form of collection i, document by document
Normalized(i) == [k \in DOMAIN backup0[i].docs |-> convertTypes(backup0[i].docs[k]).out]

IsScalar(x) == x.t \in {"string", "number", "null"}

\* the (document, converted document) pairs convertTypes visits under d
RECURSIVE Processed(_, _)
Processed(d, e) ==
    IF IsArray(d)
    THEN UNION {Processed(d.v[i], e.v[i]) : i \in DOMAIN d.v}
    ELSE IF IsObject(d)
    THEN {<<d, e>>} \cup
         UNION {IF Branch(d.v[i].k, d.v[i].val) = "recurse"
                THEN Processed(d.v[i].val, e.v[i].val) ELSE {} : i \in DOMAIN d.v}
    ELSE {}

Returned == cpc = "done" /\ cok

\* ------------------------------------------------------------------ claims

\* C1 (as stated): once processing of collection i has failed, every later
\* non-empty collection j is still handed to the backend: its handle is taken
\* and, when its documents convert, its own insertMany is issued.
C1_LaterCollectionsStillInserted ==
    Settled =>
        \A i \in failed : \A j \in DOMAIN backup0 :
            (j > i /\ NonEmpty(j)) =>
                /\ \E c \in CallsOf("collection") : calls[c].name = backup0[j].name
                /\ Converts(j) => InsertsFor(backup0[j].name) # {}

\* C2: restoreBackup closes the connection exactly once on every exit path:
\* never twice, never zero times once it has settled, not before the finally
\* block, and no insertMany (nor any other call) follows the close.
C2_CloseExactlyOnce ==
    /\ Cardinality(CallsOf("close")) <= 1
    /\ Settled => Cardinality(CallsOf("close")) = 1
    /\ pc \in {"main", "connect", "read", "loop", "insert", "catch", "finally"}
          => CallsOf("close") = {}
    /\ \A c \in CallsOf("close") : c = Len(calls)

C2_Witness ==
    /\ pc = "done"
    /\ failed # {}
    /\ Cardinality(CallsOf("close")) = 1
    /\ CallsOf("insertMany") # {}

\* C3: when the backup file does not exist the run reports the file error and
\* issues no backend call at all: no connect, collection, insertMany or close.
C3_MissingFileNoBackendCalls ==
    ~fileExists =>
        /\ calls = <<>>
        /\ pc \in {"main", "exit"}
        /\ pc = "exit" => log = <<Line("notfound", "")>>

C3_Witness == ~fileExists /\ pc = "exit" /\ log = <<Line("notfound", "")>>

\* C4 (as stated): an empty collection gets a skip notice, no insertMany, and the
\* loop moves on; every non-empty collection the loop reaches gets exactly one
\* insertMany, under its name, carrying the normalized documents in order.
C4_OneInsertPerReachedCollection ==
    \A i \in DOMAIN backup0 :
        /\ ~NonEmpty(i) =>
              /\ InsertsFor(backup0[i].name) = {}
              /\ (idx > i <=> Logged("skip", backup0[i].name))
        /\ (NonEmpty(i) /\ Logged("restoring", backup0[i].name)) =>
              /\ Cardinality(InsertsFor(backup0[i].name)) = 1
              /\ \A c \in InsertsFor(backup0[i].name) : calls[c].docs = Normalized(i)

\* C4 (amended): the same, for the non-empty collections whose documents all
\* convert; a reached collection with a conversion error gets no insertMany.
C4_OneInsertPerConvertedCollection ==
    \A i \in DOMAIN backup0 :
        /\ ~NonEmpty(i) =>
              /\ InsertsFor(backup0[i].name) = {}
              /\ (idx > i <=> Logged("skip", backup0[i].name))
        /\ (NonEmpty(i) /\ Logged("restoring", backup0[i].name)) =>
              IF Converts(i)
              THEN /\ Cardinality(InsertsFor(backup0[i].name)) = 1
                   /\ \A c \in InsertsFor(backup0[i].name) : calls[c].docs = Normalized(i)
                   /\ \E c \in InsertsFor(backup0[i].name) :
                        c > 1 /\ calls[c - 1] = Call("collection", backup0[i].name, <<>>)
              ELSE InsertsFor(backup0[i].name) = {}
        /\ ~Logged("restoring", backup0[i].name) => InsertsFor(backup0[i].name) = {}

C4_Witness ==
    /\ Len(backup0) = 2
    /\ ~NonEmpty(1) /\ Logged("skip", backup0[1].name)
    /\ Len(backup0[2].docs) = 2
    /\ \E c \in InsertsFor(backup0[2].name) : Len(calls[c].docs) = 2

\* C5: in every document convertTypes visits, a field named `name` has in the
\* output exactly the value it had in the input, and every key is kept in place.
C5_NameCopiedUnchanged ==
    Returned =>
        \A pr \in Processed(cin0, cout) :
            /\ Len(pr[2].v) = Len(pr[1].v)
            /\ \A i \in DOMAIN pr[1].v :
                  pr[1].v[i].k = "name" => pr[2].v[i] = pr[1].v[i]

C5_Witness ==
    /\ Returned /\ IsObject(cin0)
    /\ \E i \in DOMAIN cin0.v : cin0.v[i] = Field("name", Str(IsoDate)) /\ cout.v[i] = cin0.v[i]
    /\ \E pr \in Processed(cin0, cout) :
          /\ pr[1] # cin0
          /\ \E i \in DOMAIN pr[1].v :
                pr[1].v[i] = Field("name", Str(HexId)) /\ pr[2].v[i] = pr[1].v[i]

\* C6 (as stated): in every document convertTypes visits, a string `_id` comes
\* out as an identifier whenever the call returns, also when the string parses
\* as a date.
C6_IdBeforeDate ==
    Returned =>
        \A pr \in Processed(cin0, cout) :
            \A i \in DOMAIN pr[1].v :
                (pr[1].v[i].k = "_id" /\ IsString(pr[1].v[i].val))
                    => pr[2].v[i].val.t = "ObjectId"

\* C7 (as stated): after a convertTypes call its argument holds exactly the
\* values it held before the call.
C7_InputNotMutated == cpc = "done" => cin = cin0

\* what the claim about `payments` expects of one element p that came out as q;
\* withEmpty: whether an empty string counts as a string to convert
PaymentExpected(p, q, withEmpty) ==
    /\ IsObject(q)
    /\ Len(q.v) = Len(p.v)
    /\ \A f \in DOMAIN p.v :
          /\ q.v[f].k = p.v[f].k
          /\ q.v[f].val =
                IF IsString(p.v[f].val) /\ (withEmpty \/ p.v[f].val.v # "")
                THEN IF p.v[f].k = "_id" THEN NewObjectId(p.v[f].val.v)
                     ELSE IF p.v[f].k = "date" THEN NewDate(p.v[f].val.v)
                     ELSE p.v[f].val
                ELSE p.v[f].val

PaymentsExpected(withEmpty) ==
    Returned =>
        \A pr \in Processed(cin0, cout) :
            \A i \in DOMAIN pr[1].v :
                (/\ pr[1].v[i].k = "payments"
                 /\ IsArray(pr[1].v[i].val)
                 /\ \A j \in DOMAIN pr[1].v[i].val.v : IsObject(pr[1].v[i].val.v[j]))
                =>
                (/\ IsArray(pr[2].v[i].val)
                 /\ Len(pr[2].v[i].val.v) = Len(pr[1].v[i].val.v)
                 /\ \A j \in DOMAIN pr[1].v[i].val.v :
                        PaymentExpected(pr[1].v[i].val.v[j], pr[2].v[i].val.v[j], withEmpty))

\* C8 (as stated): a `payments` sequence comes out with the same length and
\* order, each element's string `_id` (the empty string included) an identifier,
\* its string `date` a timestamp, every other field as in the input.
C8_PaymentsAllStrings == PaymentsExpected(TRUE)

\* C8 (amended): the same for the non-empty strings; an empty-string `_id` or
\* `date` is left as it is.
C8_PaymentsNonEmptyStrings == PaymentsExpected(FALSE)

C8_Witness ==
    /\ Returned /\ IsObject(cin0)
    /\ \E i \in DOMAIN cin0.v :
          /\ cin0.v[i].k = "payments" /\ IsArray(cin0.v[i].val)
          /\ Len(cin0.v[i].val.v) = 2
          /\ \E j, k \in DOMAIN cin0.v[i].val.v :
                /\ HasKey(cin0.v[i].val.v[j], "note")
                /\ Get(cout.v[i].val.v[j], "_id") = NewObjectId(HexId)
                /\ Get(cout.v[i].val.v[j], "date") = NewDate(IsoDate)
                /\ Get(cout.v[i].val.v[j], "note") = Str(IsoDate)
                /\ HasKey(cin0.v[i].val.v[k], "amount")
                /\ HasKey(cin0.v[i].val.v[k], "_id")
                /\ Get(cout.v[i].val.v[k], "_id") = Str("")

\* what the claim about arrays of scalars expects of one element
ItemExpected(x) == IF IsString(x) /\ ObjectIdIsValid(x.v) THEN NewObjectId(x.v) ELSE x

ScalarArray(a) == IsArray(a) /\ \A j \in DOMAIN a.v : IsScalar(a.v[j])

\* the field case: an array of scalars under a key that is none of the four
FieldArraysConverted ==
    Returned =>
        \A pr \in Processed(cin0, cout) :
            \A i \in DOMAIN pr[1].v :
                (/\ pr[1].v[i].k \notin {"name", "_id", "payments", "purchasedProducts"}
                 /\ ScalarArray(pr[1].v[i].val))
                =>
                pr[2].v[i].val =
                    Arr([j \in DOMAIN pr[1].v[i].val.v |-> ItemExpected(pr[1].v[i].val.v[j])])

\* C9 (as stated): an array of scalars comes out with its identifier-shaped
\* strings converted and the rest unchanged, both as a field value and when it
\* is the argument of convertTypes itself.
C9_ScalarArraysConverted ==
    /\ FieldArraysConverted
    /\ (cpc = "done" /\ ScalarArray(cin0)) =>
          cok /\ cout = Arr([j \in DOMAIN cin0.v |-> ItemExpected(cin0.v[j])])

\* C9 (amended): as a field value the identifier-shaped strings are converted;
\* as the argument of convertTypes itself the array comes out with the same
\* length and every element unchanged.
C9_FieldArraysConvertedOnly ==
    /\ FieldArraysConverted
    /\ (cpc = "done" /\ ScalarArray(cin0)) => cok /\ cout = cin0

C9_Witness ==
    /\ Returned /\ IsObject(cin0)
    /\ \E i \in DOMAIN cin0.v :
          /\ cin0.v[i] = Field("tags", Arr(<<Str(HexId), Str(Plain)>>))
          /\ cout.v[i] = Field("tags", Arr(<<NewObjectId(HexId), Str(Plain)>>))

\* C10: restoreBackup emits exactly one terminal status, the success notice or
\* the error notice, before the connection-closed notice; the success notice
\* only after a connect, a read of the backup and an insertMany without error
\* for every non-empty collection.
C10_OneTerminalStatus ==
    LET terminal == LogOf("completed") \cup LogOf("error") IN
    /\ Cardinality(terminal) <= 1
    /\ Settled => Cardinality(terminal) = 1
    /\ \A c \in LogOf("closed") : \E t \in terminal : t < c
    /\ LogOf("completed") # {} =>
          /\ Logged("connected", "")
          /\ Logged("reading", "")
          /\ idx > Len(backup0)
          /\ failed = {}
          /\ \A i \in DOMAIN backup0 :
                NonEmpty(i) =>
                    /\ Cardinality(InsertsFor(backup0[i].name)) = 1
                    /\ Logged("restored", backup0[i].name)

C10_Witness ==
    /\ pc = "done"
    /\ LogOf("completed") # {}
    /\ LogOf("error") = {}
    /\ Cardinality(CallsOf("insertMany")) = 2
    /\ log[Len(log)] = Line("closed", "")

====
